---------------------------- MODULE Spec2Model ----------------------------
(***************************************************************************)
(* ESP32-NetFind: src/src/main.cpp.                                        *)
(*                                                                         *)
(* loop() scans for WiFi access points, counts those whose BSSID starts    *)
(* with the three octets of MAC_FILTER, records the magnitude of their     *)
(* signal strength in deviceSignalMap, and shows the count on the LEDs and *)
(* on the OLED display.                                                    *)
(*                                                                         *)
(* The state is the program's globals, the locals of count_devices, the    *)
(* state of the three collaborators (the WiFi scan list, the GPIO lines,   *)
(* the display) and the position of the control loop.  Variables named     *)
(* h_... are history variables: they record what the program was given or  *)
(* did and are never read by the modelled code.                            *)
(***************************************************************************)
EXTENDS Integers, Sequences, FiniteSets, TLC

VARIABLES
    pc,               \* position of the control flow: setup, scan, loop, disp, delay
    aps,              \* the scan records the radio may report in this run
    filter,           \* the prefix handed to count_devices (MAC_FILTER)
    scanBuf,          \* the WiFi library's scan results: held or not, and the list
    scanResults,      \* count_devices: int16_t scanResults
    i,                \* count_devices: int i
    num_filtered,     \* count_devices: uint16_t num_filtered
    deviceSignalMap,  \* std::map<String, int32_t> deviceSignalMap
    num_devices,      \* uint16_t num_devices
    leds,             \* level of each GPIO line of LED_PINS
    oledBuf,          \* the display's frame buffer: the strings drawn into it
    oledShown,        \* the frame the display shows
    h_scan,           \* the records the current cycle's scan returned
    h_counted,        \* per record read so far: did it increment num_filtered
    h_regAtStart,     \* deviceSignalMap when count_devices was entered
    h_lastPassing,    \* per BSSID: the raw RSSI of its latest record that passed
    h_lastShown,      \* argument of the latest disp_count call (-1: none yet)
    h_repeated,       \* the latest disp_count call had the argument of the one before
    h_ioLog           \* the collaborator calls the latest disp_count call made

vars == <<pc, aps, filter, scanBuf, scanResults, i, num_filtered,
          deviceSignalMap, num_devices, leds, oledBuf, oledShown,
          h_scan, h_counted, h_regAtStart, h_lastPassing, h_lastShown,
          h_repeated, h_ioLog>>

(***************************************************************************)
(* Configuration                                                           *)
(***************************************************************************)
LED_PINS == <<32, 33, 25>>
NUM_PINS == 3
MAC_FILTER == <<0, 13, 151>>
DISP_LEDS == TRUE
DISP_OLED == TRUE

\* The most networks one scan reports in the model.
MaxNets == 4

(***************************************************************************)
(* Integer widths                                                          *)
(***************************************************************************)
INT32_MAX == 2147483647
INT32_MIN == -INT32_MAX - 1
WrapU16(n) == n % 65536

\* std::abs(int32_t).  The negation of INT32_MIN overflows, which is
\* undefined behaviour: the result is whatever the build makes of it, here a
\* wrapping negation (INT32_MIN again) or a saturating one (INT32_MAX).
StdAbs(x) ==
    IF x = INT32_MIN THEN {INT32_MIN, INT32_MAX}
    ELSE IF x < 0 THEN {-x}
    ELSE {x}

(***************************************************************************)
(* The scan collaborator                                                   *)
(***************************************************************************)
WIFI_SCAN_RUNNING == -1
WIFI_SCAN_FAILED == -2

Hex == <<"0", "1", "2", "3", "4", "5", "6", "7",
         "8", "9", "A", "B", "C", "D", "E", "F">>
HexByte(b) == Hex[(b \div 16) + 1] \o Hex[(b % 16) + 1]

\* WiFi.BSSIDstr(i): the six octets as "%02X:%02X:%02X:%02X:%02X:%02X".
BSSIDstr(mac) ==
    HexByte(mac[1]) \o ":" \o HexByte(mac[2]) \o ":" \o HexByte(mac[3]) \o ":" \o
    HexByte(mac[4]) \o ":" \o HexByte(mac[5]) \o ":" \o HexByte(mac[6])

Net(mac, name, rssi) == [bssid |-> mac, ssid |-> name, rssi |-> rssi]

\* What WiFi.scanNetworks(false, true) can return when the radio may see the
\* networks of A: a failure code and no list, or up to MaxNets records in any
\* order, with repetitions.
ScanOutcomes(A) ==
    {[code |-> c, held |-> FALSE, nets |-> <<>>] :
        c \in {WIFI_SCAN_RUNNING, WIFI_SCAN_FAILED}}
    \cup
    {[code |-> Len(s), held |-> TRUE, nets |-> s] :
        s \in UNION {[1..n -> A] : n \in 0..MaxNets}}

\* The library holds no scan results.
NoScan == [held |-> FALSE, nets |-> <<>>]

\* Variant: the results are never freed.
ScanDeleteForgotten(buf) == buf

\* WiFi.scanDelete() frees the results the library holds.
ScanDelete(buf) == NoScan

(***************************************************************************)
(* count_devices                                                           *)
(***************************************************************************)
\* Variant: the third octet is not compared.
PassesFilterTwoOctets(BSSID, f) ==
    BSSID[1] = f[1] /\ BSSID[2] = f[2]

\* The test of line 103.
PassesFilter(BSSID, f) ==
    BSSID[1] = f[1] /\ BSSID[2] = f[2] /\ BSSID[3] = f[3]

\* Variant: the map is rebuilt from the device just seen.
MapStoreFresh(m, key, val) == (key :> val)

\* Lines 105-109: overwrite an entry that holds another value; otherwise
\* std::map::insert, which leaves an existing entry alone.
MapStore(m, key, val) ==
    IF key \in DOMAIN m /\ m[key] # val
    THEN [m EXCEPT ![key] = val]
    ELSE IF key \in DOMAIN m THEN m ELSE m @@ (key :> val)

EmptyMap == <<>>

(***************************************************************************)
(* disp_count                                                              *)
(***************************************************************************)
\* Variant: the comparison is off by one.
LedLevelOffByOne(k, count) == IF k <= count THEN "HIGH" ELSE "LOW"

\* Lines 133-140: the level written to the line of index k (from 0).
LedLevel(k, count) == IF k < count THEN "HIGH" ELSE "LOW"

DigitalWrite(l, pin, level) == [l EXCEPT ![pin] = level]

\* The for loop of lines 132-141, from index k on.
RECURSIVE WriteLeds(_, _, _)
WriteLeds(l, k, count) ==
    IF k < NUM_PINS
    THEN WriteLeds(DigitalWrite(l, LED_PINS[k + 1], LedLevel(k, count)), k + 1, count)
    ELSE l

\* The digitalWrite calls of that loop, in order.
RECURSIVE LedCalls(_, _)
LedCalls(k, count) ==
    IF k < NUM_PINS
    THEN <<<<"digitalWrite", LED_PINS[k + 1], LedLevel(k, count)>>>>
         \o LedCalls(k + 1, count)
    ELSE <<>>

\* The sentence of line 150.
CountText(count) ==
    "Found " \o ToString(count) \o " devices that passed the filter."

\* display.drawStringMaxWidth(0, 8, 128, text) adds the text to the frame buffer.
DrawString(buf, x, y, w, text) == Append(buf, <<x, y, w, text>>)

\* Lines 147-153 on the frame buffer: clear, then draw.
OledFrame(buf, count) == DrawString(<<>>, 0, 8, 128, CountText(count))

OledCalls(count) ==
    << <<"clear">>, <<"drawStringMaxWidth", 0, 8, 128, CountText(count)>>,
       <<"display">> >>

(***************************************************************************)
(* Initial states                                                          *)
(***************************************************************************)
MacA1 == <<0, 13, 151, 170, 187, 1>>
MacA2 == <<0, 13, 151, 170, 187, 2>>
MacX0 == <<1, 13, 151, 170, 187, 1>>
MacX1 == <<0, 14, 151, 170, 187, 1>>
MacX2 == <<0, 13, 152, 170, 187, 1>>

\* One device seen at two strengths, a second device, and a foreign one.
ApsSignal ==
    { Net(MacA1, "cam", -40), Net(MacA1, "cam", -55),
      Net(MacA2, "drone", -70), Net(MacX2, "home", -40) }

\* Addresses that differ from MAC_FILTER in exactly one of the first three
\* octets, and one that differs in none.
ApsFilter ==
    { Net(MacA1, "cam", -40), Net(MacX0, "cam", -40),
      Net(MacX1, "home", -55), Net(MacX2, "", -70) }

\* Readings at the ends of the int32_t range.
ApsExtreme ==
    { Net(MacA1, "cam", -40), Net(MacA1, "cam", INT32_MIN),
      Net(MacA2, "drone", INT32_MAX), Net(MacX2, "home", INT32_MIN) }

ApsSmall == { Net(MacA1, "cam", -40), Net(MacX2, "home", -40) }

InitWith(A, F) ==
    /\ pc = "setup"
    /\ aps = A
    /\ filter = F
    /\ scanBuf = NoScan
    /\ scanResults = 0
    /\ i = 0
    /\ num_filtered = 0
    /\ deviceSignalMap = EmptyMap
    /\ num_devices = 0
    /\ leds = [p \in {LED_PINS[k] : k \in 1..NUM_PINS} |-> "INPUT"]
    /\ oledBuf = <<>>
    /\ oledShown = <<>>
    /\ h_scan = <<>>
    /\ h_counted = <<>>
    /\ h_regAtStart = EmptyMap
    /\ h_lastPassing = EmptyMap
    /\ h_lastShown = -1
    /\ h_repeated = FALSE
    /\ h_ioLog = <<>>

\* The runs checked: a radio environment and the prefix the build configures.
Environments ==
    { <<ApsSignal, MAC_FILTER>>, <<ApsFilter, MAC_FILTER>>,
      <<ApsFilter, <<0, 13, 152>>>>, <<ApsExtreme, MAC_FILTER>> }

Init == \E e \in Environments : InitWith(e[1], e[2])
InitSmall == InitWith(ApsSmall, MAC_FILTER)

(***************************************************************************)
(* Actions                                                                 *)
(***************************************************************************)
\* setup(): the LED lines become outputs at LOW, the display shows an empty
\* frame.
Setup ==
    /\ pc = "setup"
    /\ leds' = IF DISP_LEDS THEN WriteLeds(leds, 0, 0) ELSE leds
    /\ oledShown' = IF DISP_OLED THEN oledBuf ELSE oledShown
    /\ pc' = "scan"
    /\ UNCHANGED <<aps, filter, scanBuf, scanResults, i, num_filtered,
                   deviceSignalMap, num_devices, oledBuf,
                   h_scan, h_counted, h_regAtStart, h_lastPassing,
                   h_lastShown, h_repeated, h_ioLog>>

\* loop() enters count_devices(MAC_FILTER): lines 73-85 up to the loop test.
ScanNetworks ==
    /\ pc = "scan"
    /\ \E r \in ScanOutcomes(aps) :
         /\ scanResults' = r.code
         /\ scanBuf' = [held |-> r.held, nets |-> r.nets]
         /\ h_scan' = r.nets
    /\ num_filtered' = 0
    /\ i' = 0
    /\ h_counted' = <<>>
    /\ h_regAtStart' = deviceSignalMap
    /\ pc' = "loop"
    /\ UNCHANGED <<aps, filter, deviceSignalMap, num_devices, leds, oledBuf,
                   oledShown, h_lastPassing, h_lastShown, h_repeated, h_ioLog>>

\* One iteration of the for loop, lines 85-116.
LoopIter ==
    /\ pc = "loop"
    /\ scanResults # 0
    /\ i < scanResults
    /\ LET RSSI == scanBuf.nets[i + 1].rssi
           BSSID == scanBuf.nets[i + 1].bssid
           str == BSSIDstr(BSSID)
       IN  IF PassesFilter(BSSID, filter)
           THEN /\ \E mag \in StdAbs(RSSI) :
                     deviceSignalMap' = MapStore(deviceSignalMap, str, mag)
                /\ num_filtered' = WrapU16(num_filtered + 1)
                /\ h_lastPassing' =
                     [k \in DOMAIN h_lastPassing \cup {BSSID} |->
                        IF k = BSSID THEN RSSI ELSE h_lastPassing[k]]
           ELSE UNCHANGED <<deviceSignalMap, num_filtered, h_lastPassing>>
    /\ h_counted' = Append(h_counted, num_filtered' # num_filtered)
    /\ i' = i + 1
    /\ UNCHANGED <<pc, aps, filter, scanBuf, scanResults, num_devices, leds,
                   oledBuf, oledShown, h_scan, h_regAtStart, h_lastShown, h_repeated,
                   h_ioLog>>

\* Variant: the size of the registry is returned.
CountReturnRegistrySize ==
    /\ pc = "loop"
    /\ scanResults = 0 \/ ~(i < scanResults)
    /\ scanBuf' = ScanDelete(scanBuf)
    /\ num_devices' = WrapU16(Cardinality(DOMAIN deviceSignalMap))
    /\ pc' = "disp"
    /\ UNCHANGED <<aps, filter, scanResults, i, num_filtered, deviceSignalMap,
                   leds, oledBuf, oledShown, h_scan, h_counted, h_regAtStart,
                   h_lastPassing, h_lastShown, h_repeated, h_ioLog>>

\* Variant: the number of networks found is returned, unfiltered.
CountReturnTotal ==
    /\ pc = "loop"
    /\ scanResults = 0 \/ ~(i < scanResults)
    /\ scanBuf' = ScanDelete(scanBuf)
    /\ num_devices' = WrapU16(scanResults)
    /\ pc' = "disp"
    /\ UNCHANGED <<aps, filter, scanResults, i, num_filtered, deviceSignalMap,
                   leds, oledBuf, oledShown, h_scan, h_counted, h_regAtStart,
                   h_lastPassing, h_lastShown, h_repeated, h_ioLog>>

\* The loop is over or was never entered: lines 119-122, and the assignment
\* of line 185.
CountReturn ==
    /\ pc = "loop"
    /\ scanResults = 0 \/ ~(i < scanResults)
    /\ scanBuf' = ScanDelete(scanBuf)
    /\ num_devices' = num_filtered
    /\ pc' = "disp"
    /\ UNCHANGED <<aps, filter, scanResults, i, num_filtered, deviceSignalMap,
                   leds, oledBuf, oledShown, h_scan, h_counted, h_regAtStart,
                   h_lastPassing, h_lastShown, h_repeated, h_ioLog>>

\* Variant: the outputs are left alone when the count has not changed.
DispCountDebounced ==
    /\ pc = "disp"
    /\ LET same == (h_lastShown = num_devices)
       IN  /\ leds' = IF same THEN leds ELSE WriteLeds(leds, 0, num_devices)
           /\ oledBuf' = IF same THEN oledBuf
                          ELSE OledFrame(oledBuf, num_devices)
           /\ oledShown' = oledBuf'
           /\ h_ioLog' = IF same THEN <<>>
                          ELSE LedCalls(0, num_devices) \o OledCalls(num_devices)
    /\ h_lastShown' = num_devices
    /\ h_repeated' = (h_lastShown = num_devices)
    /\ pc' = "delay"
    /\ UNCHANGED <<aps, filter, scanBuf, scanResults, i, num_filtered,
                   deviceSignalMap, num_devices, h_scan, h_counted,
                   h_regAtStart, h_lastPassing>>

\* disp_count(num_devices), lines 129-155.
DispCount ==
    /\ pc = "disp"
    /\ leds' = IF DISP_LEDS THEN WriteLeds(leds, 0, num_devices) ELSE leds
    /\ oledBuf' = IF DISP_OLED THEN OledFrame(oledBuf, num_devices) ELSE oledBuf
    /\ oledShown' = IF DISP_OLED THEN oledBuf' ELSE oledShown
    /\ h_ioLog' = (IF DISP_LEDS THEN LedCalls(0, num_devices) ELSE <<>>)
                  \o (IF DISP_OLED THEN OledCalls(num_devices) ELSE <<>>)
    /\ h_lastShown' = num_devices
    /\ h_repeated' = (h_lastShown = num_devices)
    /\ pc' = "delay"
    /\ UNCHANGED <<aps, filter, scanBuf, scanResults, i, num_filtered,
                   deviceSignalMap, num_devices, h_scan, h_counted,
                   h_regAtStart, h_lastPassing>>

\* Variant: a failed scan stops the program.
DelayHaltsOnFailure ==
    /\ pc = "delay"
    /\ pc' = IF scanResults < 0 THEN "halt" ELSE "scan"
    /\ scanResults' = 0
    /\ i' = 0
    /\ num_filtered' = 0
    /\ h_scan' = <<>>
    /\ h_counted' = <<>>
    /\ h_regAtStart' = EmptyMap
    /\ UNCHANGED <<aps, filter, scanBuf, deviceSignalMap, num_devices, leds,
                   oledBuf, oledShown, h_lastPassing, h_lastShown, h_repeated,
                   h_ioLog>>

\* delay(100); loop() returns and is called again.  The locals of the
\* finished count_devices call no longer exist and the cycle's history is
\* closed: both go back to their initial values.
Delay ==
    /\ pc = "delay"
    /\ pc' = "scan"
    /\ scanResults' = 0
    /\ i' = 0
    /\ num_filtered' = 0
    /\ h_scan' = <<>>
    /\ h_counted' = <<>>
    /\ h_regAtStart' = EmptyMap
    /\ UNCHANGED <<aps, filter, scanBuf, deviceSignalMap, num_devices, leds,
                   oledBuf, oledShown, h_lastPassing, h_lastShown, h_repeated, h_ioLog>>

Next ==
    \/ Setup
    \/ ScanNetworks
    \/ LoopIter
    \/ CountReturn
    \/ DispCount
    \/ Delay

Spec == Init /\ [][Next]_vars
\* loop() is called again and again, and each of its steps returns.
FairSpec == InitSmall /\ [][Next]_vars /\ WF_vars(Next)

(***************************************************************************)
(* Properties                                                              *)
(***************************************************************************)
Min(a, b) == IF a < b THEN a ELSE b
Max(a, b) == IF a > b THEN a ELSE b

\* The first three octets of mac are those of the prefix f.
FirstThreeEqual(mac, f) == \A o \in 1..3 : mac[o] = f[o]

\* The positions of the records of s whose address starts with f.
PassingIn(s, f) == {k \in 1..Len(s) : FirstThreeEqual(s[k].bssid, f)}

\* The cycle's aggregation is over.
Counted == pc \in {"disp", "delay"}

\* v is the absolute value of raw.  For raw < 0 that is v = -raw, written
\* so that neither side leaves the 32-bit range.
IsMagnitude(v, raw) ==
    IF raw >= 0 THEN v = raw ELSE v > 0 /\ v - 1 = -(raw + 1)

\* The lines of LED_PINS that are HIGH.
HighLines == {k \in 1..NUM_PINS : leds[LED_PINS[k]] = "HIGH"}

\* C1. Filter correctness: a record of the scan is counted if and only if
\* octets 0, 1 and 2 of its address equal the prefix, for each configured
\* prefix; records that agree on those octets are treated alike whatever
\* their other octets, name and signal strength; every record read so far
\* has been decided, and after the loop that is every record of the scan.
C1_FilterCorrectness ==
    /\ Len(h_counted) = i
    /\ Counted => Len(h_counted) = Len(h_scan)
    /\ \A k \in 1..Len(h_counted) :
         h_counted[k] <=> FirstThreeEqual(h_scan[k].bssid, filter)
    /\ \A j, k \in 1..Len(h_counted) :
         (\A o \in 1..3 : h_scan[j].bssid[o] = h_scan[k].bssid[o])
            => (h_counted[j] = h_counted[k])

\* A finished scan with a counted record and a record that was not counted
\* because its octet 2 alone differs from the prefix.
C1_Witness ==
    /\ pc = "disp"
    /\ \E j, k \in 1..Len(h_counted) :
         /\ h_counted[j]
         /\ ~h_counted[k]
         /\ h_scan[k].bssid[1] = filter[1]
         /\ h_scan[k].bssid[2] = filter[2]
         /\ h_scan[k].bssid[3] # filter[3]

\* C2. Count consistency: the value count_devices returns is the number of
\* records of the current scan whose address starts with the prefix, with
\* repeated addresses counted each time and whatever deviceSignalMap held;
\* during the loop num_filtered is that number among the records read.
C2_CountConsistency ==
    /\ Counted => num_devices = Cardinality(PassingIn(h_scan, filter))
    /\ pc = "loop" =>
         num_filtered = Cardinality({k \in PassingIn(h_scan, filter) : k <= i})

\* A scan that reports twice a device registered in an earlier cycle: the
\* count is 2 and the registry holds one entry.
C2_Witness ==
    /\ pc = "disp"
    /\ Len(h_scan) = 2
    /\ h_scan[1].bssid = h_scan[2].bssid
    /\ BSSIDstr(h_scan[1].bssid) \in DOMAIN h_regAtStart
    /\ num_devices = 2
    /\ Cardinality(DOMAIN deviceSignalMap) = 1

\* C3. Registry holds the latest magnitude: once a cycle's aggregation is
\* over, deviceSignalMap has exactly one entry per address that ever passed
\* the filter, and its value is the absolute value of the signal strength
\* of the latest passing record of that address.
C3_LatestMagnitude ==
    Counted =>
      /\ \A mac \in DOMAIN h_lastPassing :
           /\ BSSIDstr(mac) \in DOMAIN deviceSignalMap
           /\ IsMagnitude(deviceSignalMap[BSSIDstr(mac)], h_lastPassing[mac])
      /\ Cardinality(DOMAIN deviceSignalMap) = Cardinality(DOMAIN h_lastPassing)

\* C4. Registry is insert-or-update only and holds only matching addresses:
\* no step removes a key; every key is the address of a record that was
\* read and whose first three octets are the prefix; the iteration over a
\* record that fails the filter leaves deviceSignalMap as it was.
C4_InsertOrUpdateOnly ==
    /\ [](\A key \in DOMAIN deviceSignalMap :
            \E mac \in DOMAIN h_lastPassing :
               /\ key = BSSIDstr(mac)
               /\ FirstThreeEqual(mac, filter)
               /\ \E n \in aps : n.bssid = mac)
    /\ [][ /\ DOMAIN deviceSignalMap \subseteq DOMAIN deviceSignalMap'
           /\ (/\ pc = "loop"
               /\ i' = i + 1
               /\ ~FirstThreeEqual(scanBuf.nets[i + 1].bssid, filter))
              => deviceSignalMap' = deviceSignalMap ]_vars

\* A later cycle that saw a foreign record and added a second device to a
\* registry that already held one.
C4_Witness ==
    /\ pc = "disp"
    /\ Cardinality(DOMAIN h_regAtStart) = 1
    /\ Cardinality(DOMAIN deviceSignalMap) = 2
    /\ \E k \in 1..Len(h_scan) : ~FirstThreeEqual(h_scan[k].bssid, filter)

\* C5. Magnitude invariant: every value stored in deviceSignalMap is
\* non-negative, for every int32_t reading.
C5_MagnitudeNonNegative ==
    \A key \in DOMAIN deviceSignalMap : deviceSignalMap[key] >= 0

\* C6. Saturating lamp indicator: once disp_count(C) has returned, the
\* first min(C, NUM_PINS) lines of LED_PINS are HIGH and the others LOW, so
\* exactly min(C, NUM_PINS) lines are active and every C >= NUM_PINS lights
\* them all.
C6_SaturatingLamps ==
    (DISP_LEDS /\ h_lastShown >= 0) =>
      /\ \A k \in 1..NUM_PINS :
           leds[LED_PINS[k]] =
             IF k <= Min(h_lastShown, NUM_PINS) THEN "HIGH" ELSE "LOW"
      /\ Cardinality(HighLines) = Min(h_lastShown, NUM_PINS)
      /\ h_lastShown >= NUM_PINS => HighLines = 1..NUM_PINS

\* disp_count has returned from a count above the number of lines, after a
\* call with another count.
C6_Witness ==
    /\ pc = "delay"
    /\ h_lastShown > NUM_PINS
    /\ ~h_repeated
    /\ HighLines = 1..NUM_PINS

\* The frame that shows the count c.
FrameOf(c) ==
    << <<0, 8, 128,
         "Found " \o ToString(c) \o " devices that passed the filter.">> >>

\* C7. Empty scan is not an error: when the scan reports zero networks,
\* count_devices returns 0, deviceSignalMap is what it was on entry, the
\* scan results have been freed, and disp_count then shows 0: every line
\* LOW and the sentence with 0 on the display.
C7_EmptyScan ==
    (Counted /\ scanResults = 0) =>
      /\ num_devices = 0
      /\ deviceSignalMap = h_regAtStart
      /\ scanBuf = NoScan
      /\ pc = "delay" =>
           /\ h_lastShown = 0
           /\ HighLines = {}
           /\ oledShown = FrameOf(0)

\* An empty scan has been presented, in a run that registered a device
\* and showed another count before.
C7_Witness ==
    /\ pc = "delay"
    /\ scanResults = 0
    /\ DOMAIN deviceSignalMap # {}
    /\ ~h_repeated
    /\ oledShown = FrameOf(0)

\* The control flow follows setup, then scan, loop, disp, delay, scan, ...
OrderStep ==
    \/ pc = "setup" /\ pc' = "scan"
    \/ pc = "scan" /\ pc' = "loop"
    \/ pc = "loop" /\ pc' = "loop" /\ i < scanResults /\ i' = i + 1
    \/ pc = "loop" /\ pc' = "disp" /\ ~(i < scanResults)
    \/ pc = "disp" /\ pc' = "delay"
    \/ pc = "delay" /\ pc' = "scan"

\* The outputs and the record of the latest presentation.
outputs == <<leds, oledBuf, oledShown, h_lastShown, h_repeated, h_ioLog>>

\* C8. Strict cycle ordering without termination: the steps follow the
\* order scan, filter/aggregate, present, delay; the outputs change only in
\* the one step from disp to delay, which presents the count the finished
\* aggregation returned; a scan starts only when the previous results are
\* freed; some step is always possible, and every cycle is followed by the
\* next one whatever the scan returned.
C8_CycleOrdering ==
    /\ [][ /\ OrderStep
           /\ (pc # "setup" /\ outputs' # outputs) =>
                 (pc = "disp" /\ ~(i < scanResults))
           /\ (pc = "disp") =>
                 /\ h_lastShown' = num_devices
                 /\ num_devices = num_filtered
                 /\ h_ioLog' # <<>>
           /\ (pc' = "disp") => num_devices' = num_filtered ]_vars
    /\ [](pc = "scan" => scanBuf = NoScan)
    /\ [](ENABLED Next)
    /\ \A c \in WIFI_SCAN_FAILED..MaxNets :
         (pc = "loop" /\ scanResults = c) ~> (pc = "delay" /\ scanResults = c)
    /\ (pc = "delay") ~> (pc = "loop")

\* A cycle whose scan failed has been presented after a cycle that counted
\* a device.
C8_Witness ==
    /\ pc = "delay"
    /\ scanResults = WIFI_SCAN_FAILED
    /\ ~h_repeated
    /\ DOMAIN deviceSignalMap # {}

\* The names of the collaborator calls of the latest disp_count call.
CallNames == [k \in 1..Len(h_ioLog) |-> h_ioLog[k][1]]

\* C9. Idempotent, unconditional presentation: a disp_count call with the
\* count of the call before leaves lines and display as they were; every
\* call writes every line of LED_PINS and clears, draws and commits the
\* display; and the outputs after a call are those of its count alone.
C9_IdempotentPresentation ==
    /\ [][ (pc = "disp" /\ pc' = "delay") =>
             /\ (h_lastShown = num_devices) =>
                   (leds' = leds /\ oledShown' = oledShown /\ oledBuf' = oledBuf)
             /\ DISP_LEDS =>
                   {h_ioLog'[k][2] :
                      k \in {n \in 1..Len(h_ioLog') :
                               h_ioLog'[n][1] = "digitalWrite"}}
                     = {LED_PINS[k] : k \in 1..NUM_PINS}
             /\ DISP_OLED =>
                   \E n \in 1..Len(h_ioLog') :
                      SubSeq(CallNames', n, Len(h_ioLog'))
                        = <<"clear", "drawStringMaxWidth", "display">> ]_vars
    /\ [](h_lastShown >= 0 =>
            /\ {LED_PINS[k] : k \in HighLines}
                 = {LED_PINS[k] : k \in 1..Min(h_lastShown, NUM_PINS)}
            /\ \A k \in 1..NUM_PINS : leds[LED_PINS[k]] \in {"HIGH", "LOW"}
            /\ oledShown = FrameOf(h_lastShown)
            /\ oledBuf = oledShown)

\* disp_count has returned from the count of the call before, with a line
\* lit.
C9_Witness ==
    /\ pc = "delay"
    /\ h_repeated
    /\ h_lastShown = 2
    /\ Cardinality(HighLines) = 2

\* C10. Failed scan degrades to zero results: after a negative result code
\* no record is read, num_filtered stays 0, deviceSignalMap is what it was
\* on entry and 0 is returned; and the value returned is always between 0
\* and max(0, scanResults).
C10_FailedScan ==
    /\ (pc \in {"loop", "disp", "delay"} /\ scanResults < 0) =>
         /\ h_counted = <<>>
         /\ i = 0
         /\ num_filtered = 0
         /\ deviceSignalMap = h_regAtStart
    /\ (Counted /\ scanResults < 0) => num_devices = 0
    /\ Counted => (0 <= num_devices /\ num_devices <= Max(0, scanResults))

\* A failed scan has been presented as 0 in a run that registered a device
\* before.
C10_Witness ==
    /\ pc = "delay"
    /\ scanResults < 0
    /\ num_devices = 0
    /\ h_lastShown = 0
    /\ DOMAIN deviceSignalMap # {}

=============================================================================
